---------------------------- MODULE Spec2Model ----------------------------
(***************************************************************************)
(* A model of the dsengine runtime core: the generational Pool, the        *)
(* Hierarchy (spawn_prefab, link_new_child, find, the start-stack drain    *)
(* and the update pass) and the prefab records they consume.               *)
(*                                                                         *)
(* Rust indices are 0-based and are kept 0-based in handles and link       *)
(* indices; a TLA+ sequence s models a Vec v with v[i] = s[i + 1].         *)
(* Option<T> is modelled as a sequence of length <= 1.                     *)
(***************************************************************************)
EXTENDS Integers, Sequences, FiniteSets, TLC

VARIABLES
    pool,            \* Pool<Node>.vec: the slots, in index order
    free_stack,      \* Pool<Node>'s free list (last element = most recently freed)
    to_start_stack,  \* Hierarchy.to_start_stack
    pc,              \* where the program is: "setup", "idle", "starts", "started",
                     \* "update", or "fatal" once a panic has aborted it
    cb,              \* the script callback being executed, if any
    upd_i,           \* run_script_update: the loop variable i
    upd_len,         \* run_script_update: vec_len() evaluated at loop entry
    pass_log,        \* history: indices whose update callback ran in the current pass
    life,            \* history: per slot, what has happened to its current occupant
    last,            \* history: the last operation and what it observed
    spawned,         \* history: the prefab indices spawn_prefab has instantiated
    queue_log,       \* history: per entry of to_start_stack, when it was pushed
    pass_visits,     \* history: the pool's length when the current update pass
                     \* was entered, and the indices its loop has taken so far
    alive,           \* history: handles returned by add and not yet destroyed
    dead             \* history: handles that have been destroyed

vars == <<pool, free_stack, to_start_stack, pc, cb, upd_i, upd_len,
          pass_log, life, last, spawned, queue_log, pass_visits, alive, dead>>

-----------------------------------------------------------------------------
(* Bounds of the model *)

\* the largest value the slot generation counter can hold (the saturation point)
GenMax == 3

\* the largest number of slots the pool's vector may grow to
MaxSlots == 4

\* the largest number of hierarchy calls one script callback makes
MaxOps == 2

-----------------------------------------------------------------------------
(* Option<T> *)

None == << >>

Some(x) == <<x>>

is_some(o) == Len(o) = 1

unwrap(o) == o[1]

-----------------------------------------------------------------------------
(* Pool<T> and Handle<T> *)

Handle(i, g) == [index |-> i, generation |-> g]

\* a slot that holds no item
FreeEntry(g) == [generation |-> g, item |-> None]

\* an increment that leaves the generation as it was
saturating_add_stuck(g) == g

\* the saturating increment of a slot's generation
saturating_add(g) == IF g < GenMax THEN g + 1 ELSE g

\* a slot count that leaves out the last slot
vec_len_short(p) == Len(p) - 1

vec_len(p) == Len(p)

\* Handle validity: the slot exists, is occupied, and the generations agree
is_valid(p, h) ==
    /\ h.index + 1 \in 1..Len(p)
    /\ is_some(p[h.index + 1].item)
    /\ p[h.index + 1].generation = h.generation

\* a lookup that takes whatever occupies the slot, whatever its generation
try_borrow_occupant(p, h) ==
    IF h.index + 1 \in 1..Len(p) THEN p[h.index + 1].item ELSE None

\* try_borrow / try_borrow_mut: the item, or absence
try_borrow(p, h) == IF is_valid(p, h) THEN p[h.index + 1].item ELSE None

\* handle_from_index: the handle rebuilt from the slot's current generation
handle_from_index(p, i) == Handle(i, p[i + 1].generation)

\* an add that reuses the slot that has been free the longest
pool_add_oldest(p, fs, value) ==
    IF Len(fs) > 0
    THEN LET i == fs[1]
             g == saturating_add(p[i + 1].generation)
         IN  [pool |-> [p EXCEPT ![i + 1] = [generation |-> g, item |-> Some(value)]],
              free |-> Tail(fs),
              handle |-> Handle(i, g)]
    ELSE [pool |-> Append(p, [generation |-> 0, item |-> Some(value)]),
          free |-> fs,
          handle |-> Handle(Len(p), 0)]

\* Pool::add: reuse the most recently freed slot, bumping its generation,
\* else append a new slot at generation 0
pool_add(p, fs, value) ==
    IF Len(fs) > 0
    THEN LET i == fs[Len(fs)]
             g == saturating_add(p[i + 1].generation)
         IN  [pool |-> [p EXCEPT ![i + 1] = [generation |-> g, item |-> Some(value)]],
              free |-> SubSeq(fs, 1, Len(fs) - 1),
              handle |-> Handle(i, g)]
    ELSE [pool |-> Append(p, [generation |-> 0, item |-> Some(value)]),
          free |-> fs,
          handle |-> Handle(Len(p), 0)]

\* Pool::destroy of a valid handle: free the slot, increment its generation
\* (saturating), push the index onto the free list
pool_destroy(p, fs, h) ==
    [pool |-> [p EXCEPT ![h.index + 1] =
                   FreeEntry(saturating_add(p[h.index + 1].generation))],
     free |-> Append(fs, h.index)]

\* the handles that are valid in pool p
ValidHandles(p) == { handle_from_index(p, i - 1) :
                       i \in { j \in 1..Len(p) : is_some(p[j].item) } }


-----------------------------------------------------------------------------
(* The prefab records (SavedNode, SavedNodeGraph, SavedPrefabs) *)

SavedNode(child, parent, sibling, name, script) ==
    [child_index |-> child, parent_index |-> parent, sibling_index |-> sibling,
     name |-> name, transform |-> [x |-> 0, y |-> 0],
     script_type_id |-> script, enabled |-> TRUE]

\* The catalog the hierarchy was constructed with (SavedPrefabs.graphs):
\*   graph 0: one scripted record, the root of its template
\*   graph 1: record 0 the root with child 1; record 1 has parent_index 0
\*   graph 2: record 0 the root with children 1 and 2 (1's sibling is 2)
\*   graph 3: two records that both carry a parent index
\*   graph 4: no records
saved_prefab_data ==
    << <<SavedNode(None, None, None, "A", Some(2))>>,
       <<SavedNode(Some(1), None, None, "A", Some(1)),
         SavedNode(None, Some(0), None, "B", Some(2))>>,
       <<SavedNode(Some(1), None, None, "C", None),
         SavedNode(None, Some(0), Some(2), "A", None),
         SavedNode(None, Some(0), None, "B", Some(2))>>,
       <<SavedNode(None, Some(1), None, "A", None),
         SavedNode(None, Some(0), None, "B", None)>>,
       << >> >>

\* the prefab indices a caller passes: the catalog's, and one past its end
PrefabIndices == 0..Len(saved_prefab_data)

\* the records of a template that lack a parent index
RootRecords(nodes) == { k \in 1..Len(nodes) : ~is_some(nodes[k].parent_index) }

\* every present link index of the template addresses a record of the template
LinksInRange(nodes) ==
    \A k \in 1..Len(nodes) :
        /\ is_some(nodes[k].child_index) => unwrap(nodes[k].child_index) < Len(nodes)
        /\ is_some(nodes[k].sibling_index) => unwrap(nodes[k].sibling_index) < Len(nodes)
        /\ is_some(nodes[k].parent_index) => unwrap(nodes[k].parent_index) < Len(nodes)

\* the records (0-based) on the child list of record r of a template, at most
\* Len(nodes) of them: the list from r's child_index through sibling_index
RECURSIVE RecordChain(_, _, _)
RecordChain(nodes, link, fuel) ==
    IF ~is_some(link) \/ fuel = 0 THEN << >>
    ELSE <<unwrap(link)>> \o
         RecordChain(nodes, nodes[unwrap(link) + 1].sibling_index, fuel - 1)

RecordChildren(nodes, r) == RecordChain(nodes, nodes[r + 1].child_index, Len(nodes))

SeqRange(s) == { s[i] : i \in 1..Len(s) }

\* A well-formed template: exactly one record lacks a parent index, the links
\* are in range, and the child lists are exactly the records naming that
\* parent, each listed once
WellFormed(nodes) ==
    /\ Cardinality(RootRecords(nodes)) = 1
    /\ LinksInRange(nodes)
    /\ \A r \in 0..(Len(nodes) - 1) :
          LET ch == RecordChildren(nodes, r)
          IN  /\ Len(ch) = Cardinality(SeqRange(ch))
              /\ SeqRange(ch) = { c \in 0..(Len(nodes) - 1) :
                                    nodes[c + 1].parent_index = Some(r) }
    /\ \A k \in RootRecords(nodes) : ~is_some(nodes[k].sibling_index)

WellFormedIndices == { g \in 0..(Len(saved_prefab_data) - 1) :
                         WellFormed(saved_prefab_data[g + 1]) }

-----------------------------------------------------------------------------
(* Node, NodeScriptData and the script factory *)

\* run_script_factory: the script object built for a serialized type id
run_script_factory(id) == [concrete |-> id]

NodeScriptData(id) == [type_id |-> id, script |-> run_script_factory(id)]

\* the node Hierarchy::new puts at the root
RootNode ==
    [child_handle |-> None, parent_handle |-> None, sibling_handle |-> None,
     name |-> "", transform |-> [x |-> 0, y |-> 0],
     script_data |-> None, enabled |-> TRUE]

\* the node spawn_prefab allocates for a record, links still placeholders
PlaceholderNode(snode) ==
    [child_handle |-> None, parent_handle |-> None, sibling_handle |-> None,
     name |-> snode.name,
     transform |-> [x |-> snode.transform.x, y |-> snode.transform.y],
     script_data |-> IF is_some(snode.script_type_id)
                     THEN Some(NodeScriptData(unwrap(snode.script_type_id)))
                     ELSE None,
     enabled |-> snode.enabled]

\* borrow / borrow_mut of a valid handle
borrow(p, h) == unwrap(p[h.index + 1].item)

\* assignment to one field of the node a valid handle names
set_field(p, h, f, v) ==
    [p EXCEPT ![h.index + 1].item = Some([borrow(p, h) EXCEPT ![f] = v])]

\* the script types a caller can name: HasTypeId::type_id() of each
TypeIds == 1..2

\* a cast that checks only that a script is attached
cast_script_unchecked(self, T) ==
    LET s_data == self.script_data
    IN  IF ~is_some(s_data)
        THEN [fatal |-> TRUE, as |-> T, script |-> None]
        ELSE [fatal |-> FALSE, as |-> T, script |-> Some(unwrap(s_data).script)]

\* Node::cast_script::<T>: fatal without script_data (expect), fatal when
\* T's type id is not the stored one (assert_eq!), else the payload is
\* handed out reinterpreted as a T
cast_script(self, T) ==
    LET s_data == self.script_data
    IN  IF ~is_some(s_data)
        THEN [fatal |-> TRUE, as |-> T, script |-> None]
        ELSE IF T # unwrap(s_data).type_id
        THEN [fatal |-> TRUE, as |-> T, script |-> None]
        ELSE [fatal |-> FALSE, as |-> T, script |-> Some(unwrap(s_data).script)]

\* Node::cast_script_mut::<T>: the same two checks on a mutable borrow
cast_script_mut(self, T) ==
    LET s_data == self.script_data
    IN  IF ~is_some(s_data)
        THEN [fatal |-> TRUE, as |-> T, script |-> None]
        ELSE IF T # unwrap(s_data).type_id
        THEN [fatal |-> TRUE, as |-> T, script |-> None]
        ELSE [fatal |-> FALSE, as |-> T, script |-> Some(unwrap(s_data).script)]


-----------------------------------------------------------------------------
(* Hierarchy::spawn_prefab and Hierarchy::link_new_child *)

\* an or that returns its argument whatever self is
or_always(self, optb) == optb

\* an or that never falls back on its argument
or_self(self, optb) == self

\* Option::or: its argument is evaluated before the call, whatever self is
or(self, optb) == IF is_some(self) THEN self ELSE optb

\* First loop of spawn_prefab: add a placeholder node per record, in record
\* order, collecting the handles
RECURSIVE alloc_nodes(_, _, _)
alloc_nodes(acc, nodes, k) ==
    IF k > Len(nodes) THEN acc
    ELSE LET r == pool_add(acc.pool, acc.free, PlaceholderNode(nodes[k]))
         IN  alloc_nodes([pool |-> r.pool, free |-> r.free,
                          new_handles |-> Append(acc.new_handles, r.handle)],
                         nodes, k + 1)

\* new_handles[idx]: the indexing panics when idx is out of bounds
index_in_bounds(o, new_handles) == is_some(o) => unwrap(o) < Len(new_handles)

\* a resolution that reads a link index as 1-based, with 0 for no link
resolve_one_based(o, new_handles) ==
    IF is_some(o) /\ unwrap(o) >= 1 THEN Some(new_handles[unwrap(o)]) ELSE None

\* a resolution that gives the handle of the last record for every link
resolve_last(o, new_handles) ==
    IF is_some(o) THEN Some(new_handles[Len(new_handles)]) ELSE None

resolve(o, new_handles) ==
    IF is_some(o) THEN Some(new_handles[unwrap(o) + 1]) ELSE None

\* to_start_stack.push(*handle) left out
push_to_start_lost(stack, handle) == stack

\* a push that puts the handle under the entries the stack holds
push_to_start_under(stack, handle) == <<handle>> \o stack

\* to_start_stack.push(*handle)
push_to_start(stack, handle) == Append(stack, handle)

\* Second loop of spawn_prefab, from record k on.  st holds the pool, the
\* start stack, prefab_root and whether an indexing panicked.
RECURSIVE wire_nodes(_, _, _, _, _)
wire_nodes(st, nodes, new_handles, parent, k) ==
    IF k > Len(nodes) \/ st.fatal THEN st
    ELSE LET snode == nodes[k]
             handle == new_handles[k]
         IN  IF ~(/\ index_in_bounds(snode.child_index, new_handles)
                  /\ index_in_bounds(snode.sibling_index, new_handles)
                  /\ index_in_bounds(snode.parent_index, new_handles))
             THEN [st EXCEPT !.fatal = TRUE]
             ELSE LET p1 == set_field(st.pool, handle, "child_handle",
                                      resolve(snode.child_index, new_handles))
                      p2 == set_field(p1, handle, "sibling_handle",
                                      resolve(snode.sibling_index, new_handles))
                      \* the block passed to or() runs for every record
                      p3 == set_field(p2, handle, "parent_handle",
                                      or(resolve(snode.parent_index, new_handles),
                                         Some(parent)))
                  IN  wire_nodes([pool |-> p3,
                                  stack |-> push_to_start(st.stack, handle),
                                  prefab_root |-> Some(handle),
                                  fatal |-> FALSE],
                                 nodes, new_handles, parent, k + 1)

\* link_new_child: parent.child_handle becomes child, and child.sibling_handle
\* becomes what parent.child_handle was
link_new_child(p, parent, child) ==
    LET old == borrow(p, parent).child_handle
        p1 == set_field(p, parent, "child_handle", Some(child))
    IN  set_field(p1, child, "sibling_handle", old)

\* spawn_prefab(index, parent) on pool p, free list fs and start stack stack:
\* the state it leaves, or fatal when one of its panics is reached
spawn_prefab(p, fs, stack, index, parent) ==
    LET failed == [fatal |-> TRUE, pool |-> p, free |-> fs, stack |-> stack,
                   new_handles |-> << >>, prefab_root |-> None]
    IN  IF index >= Len(saved_prefab_data) THEN failed
        ELSE LET nodes == saved_prefab_data[index + 1]
                 a == alloc_nodes([pool |-> p, free |-> fs, new_handles |-> << >>],
                                  nodes, 1)
                 w == wire_nodes([pool |-> a.pool, stack |-> stack,
                                  prefab_root |-> None, fatal |-> FALSE],
                                 nodes, a.new_handles, parent, 1)
             IN  IF w.fatal \/ ~is_some(w.prefab_root) \/ ~is_valid(w.pool, parent)
                 THEN failed
                 ELSE [fatal |-> FALSE,
                       pool |-> link_new_child(w.pool, parent, unwrap(w.prefab_root)),
                       free |-> a.free,
                       stack |-> w.stack,
                       new_handles |-> a.new_handles,
                       prefab_root |-> w.prefab_root]


-----------------------------------------------------------------------------
(* Hierarchy::destroy_node and Hierarchy::find *)

\* destroy_node(handle) of a valid handle: the node is unlinked from its
\* parent's child list (the parent's child_handle or the preceding sibling's
\* sibling_handle now skips it) and its slot is freed.  Its descendants and
\* the start stack are left as they are.
destroy_node(p, fs, h) ==
    LET n == borrow(p, h)
        is_parent(i) == /\ is_some(n.parent_handle)
                        /\ is_valid(p, unwrap(n.parent_handle))
                        /\ unwrap(n.parent_handle).index + 1 = i
        skip(i) ==
            IF ~is_some(p[i].item) THEN p[i]
            ELSE LET x == unwrap(p[i].item)
                     c == IF is_parent(i) /\ x.child_handle = Some(h)
                          THEN n.sibling_handle ELSE x.child_handle
                     sb == IF x.parent_handle = n.parent_handle
                              /\ x.sibling_handle = Some(h)
                           THEN n.sibling_handle ELSE x.sibling_handle
                 IN  [p[i] EXCEPT !.item = Some([x EXCEPT !.child_handle = c,
                                                          !.sibling_handle = sb])]
        unlinked == [i \in 1..Len(p) |-> skip(i)]
    IN  pool_destroy(unlinked, fs, h)

\* the predicates find is called with: find_by_name's and find_by_script_type's
ByName(name) == [kind |-> "name", name |-> name, type_id |-> 0]

ByScriptType(id) == [kind |-> "script", name |-> "", type_id |-> id]

Predicates == { ByName(nm) : nm \in {"A", "B", "C", "D"} }
              \cup { ByScriptType(id) : id \in {1, 2, 3} }

predicate(pred, node) ==
    IF pred.kind = "name" THEN node.name = pred.name
    ELSE /\ is_some(node.script_data)
         /\ unwrap(node.script_data).type_id = pred.type_id

\* the loop of find from cur_node_handle on; budget bounds the iterations, a
\* loop that outlasts every slot of the pool never returns
RECURSIVE find_loop(_, _, _, _)
find_loop(p, cur_node_handle, pred, budget) ==
    IF budget = 0 THEN [outcome |-> "diverges", result |-> None]
    ELSE IF ~is_valid(p, cur_node_handle) THEN [outcome |-> "panic", result |-> None]
    ELSE LET cur_node == borrow(p, cur_node_handle)
         IN  IF predicate(pred, cur_node)
             THEN [outcome |-> "returns", result |-> Some(cur_node_handle)]
             ELSE IF ~is_some(cur_node.sibling_handle)
             THEN [outcome |-> "returns", result |-> None]
             ELSE find_loop(p, unwrap(cur_node.sibling_handle), pred, budget - 1)

\* find(search_root, predicate)
find(p, search_root, pred) ==
    IF ~is_valid(p, search_root) THEN [outcome |-> "panic", result |-> None]
    ELSE IF ~is_some(borrow(p, search_root).child_handle)
    THEN [outcome |-> "returns", result |-> None]
    ELSE find_loop(p, unwrap(borrow(p, search_root).child_handle), pred, Len(p) + 1)


-----------------------------------------------------------------------------
(* History records *)

NoOp == [op |-> "none", index |-> 0, parent |-> None, new_handles |-> << >>,
         fatal |-> FALSE, pre_live |-> 0, pre_stack |-> << >>, pre_child |-> None,
         handle |-> None, prev |-> None, stamp |-> 0, during |-> "",
         as |-> 0, script |-> None, pre_pool |-> << >>,
         batch |-> 0, record |-> 0, size |-> 0]

\* what is remembered of the occupant a slot has just received
LifeNew(scripted, fresh) ==
    [starts |-> 0, early |-> FALSE, fresh |-> fresh, scripted |-> scripted]

LiveCount(p) == Cardinality({ i \in 1..Len(p) : is_some(p[i].item) })

\* the root handle Hierarchy::new stores
root == Handle(0, 0)

\* the slot's generation can go through a destroy and a reuse without
\* reaching the counter's maximum
BelowExhaustion(p, h) == p[h.index + 1].generation + 2 <= GenMax

-----------------------------------------------------------------------------
(* The state after Hierarchy::new *)

Init ==
    /\ pool = <<[generation |-> 0, item |-> Some(RootNode)]>>
    /\ free_stack = << >>
    /\ to_start_stack = << >>
    /\ queue_log = << >>
    /\ pc = "setup"
    /\ cb = None
    /\ upd_i = 0
    /\ upd_len = 0
    /\ pass_log = << >>
    /\ pass_visits = [entry_len |-> 0, visited |-> << >>]
    /\ life = <<LifeNew(FALSE, FALSE)>>
    /\ last = NoOp
    /\ spawned = {}
    /\ alive = {}
    /\ dead = {}

-----------------------------------------------------------------------------
(* spawn_prefab and destroy_node as steps, from the frame driver's side and *)
(* from inside a script callback                                            *)

\* the largest push stamp among the entries of the start stack
NewestStamp ==
    IF Len(queue_log) = 0 THEN 0
    ELSE CHOOSE n \in { queue_log[i].stamp : i \in 1..Len(queue_log) } :
             \A i \in 1..Len(queue_log) : queue_log[i].stamp <= n

\* the 0-based position of the record that handle h was allocated for, or -1
RecordOf(new_handles, h) ==
    IF \E j \in 1..Len(new_handles) : new_handles[j] = h
    THEN (CHOOSE j \in 1..Len(new_handles) : new_handles[j] = h) - 1
    ELSE -1

\* the effect of a spawn_prefab(index, parent) call on the state
DoSpawn(index, parent) ==
    LET r == spawn_prefab(pool, free_stack, to_start_stack, index, parent)
        nodes == saved_prefab_data[index + 1]
        is_new(i) == \E k \in 1..Len(r.new_handles) : r.new_handles[k].index + 1 = i
        rec_of(i) == CHOOSE k \in 1..Len(r.new_handles) : r.new_handles[k].index + 1 = i
    IN  /\ Len(r.pool) <= MaxSlots
        /\ last' = [NoOp EXCEPT !.op = "spawn", !.index = index,
                                !.parent = Some(parent),
                                !.new_handles = r.new_handles,
                                !.fatal = r.fatal,
                                !.pre_live = LiveCount(pool),
                                !.pre_stack = to_start_stack,
                                !.pre_child = borrow(pool, parent).child_handle]
        /\ IF r.fatal
           THEN /\ pc' = "fatal"
                /\ UNCHANGED <<pool, free_stack, to_start_stack, queue_log, life, spawned>>
           ELSE /\ pool' = r.pool
                /\ free_stack' = r.free
                /\ to_start_stack' = r.stack
                /\ queue_log' = queue_log \o
                       [k \in 1..(Len(r.stack) - Len(to_start_stack)) |->
                           [stamp |-> NewestStamp + k, during |-> pc,
                            batch |-> NewestStamp + 1,
                            record |-> RecordOf(r.new_handles,
                                               r.stack[Len(to_start_stack) + k]),
                            size |-> Len(r.new_handles)]]
                /\ life' = [i \in 1..Len(r.pool) |->
                              IF is_new(i)
                              THEN LifeNew(is_some(nodes[rec_of(i)].script_type_id),
                                           pc = "update")
                              ELSE life[i]]
                /\ spawned' = spawned \cup {index}
                /\ UNCHANGED pc

\* the effect of a destroy_node(h) call on the state
DoDestroy(h) ==
    LET r == destroy_node(pool, free_stack, h)
    IN  /\ pool' = r.pool
        /\ free_stack' = r.free
        /\ last' = [NoOp EXCEPT !.op = "destroy", !.handle = Some(h)]
        /\ UNCHANGED <<to_start_stack, queue_log, life, pc, spawned>>

\* the game's setup code spawns a prefab before the first frame
SpawnAtSetup(index, parent) ==
    /\ pc = "setup"
    /\ DoSpawn(index, parent)
    /\ UNCHANGED <<cb, upd_i, upd_len, pass_log, pass_visits, alive, dead>>

\* the parents script callbacks spawn under: the hierarchy's root, as
\* PlayerScript::update does
CallbackParents == {root}

\* a script callback calls spawn_prefab through its context
CallbackSpawn(index, parent) ==
    /\ pc \in {"starts", "update"}
    /\ is_some(cb)
    /\ unwrap(cb).ops < MaxOps
    /\ DoSpawn(index, parent)
    /\ cb' = Some([unwrap(cb) EXCEPT !.ops = @ + 1])
    /\ UNCHANGED <<upd_i, upd_len, pass_log, pass_visits, alive, dead>>

\* a script callback calls destroy_node through its context
CallbackDestroy(h) ==
    /\ pc \in {"starts", "update"}
    /\ is_some(cb)
    /\ unwrap(cb).ops < MaxOps
    /\ h # root
    /\ BelowExhaustion(pool, h)
    /\ DoDestroy(h)
    /\ cb' = Some([unwrap(cb) EXCEPT !.ops = @ + 1])
    /\ UNCHANGED <<upd_i, upd_len, pass_log, pass_visits, alive, dead>>

\* a script callback borrows a node and casts its script to the type T, with
\* cast_script or with cast_script_mut
CallbackCast(h, T) ==
    /\ pc \in {"starts", "update"}
    /\ is_some(cb)
    /\ \E mutable \in BOOLEAN :
          LET r == IF mutable THEN cast_script_mut(borrow(pool, h), T)
                              ELSE cast_script(borrow(pool, h), T)
          IN  /\ last' = [NoOp EXCEPT !.op = "cast", !.handle = Some(h),
                                      !.fatal = r.fatal, !.as = r.as,
                                      !.script = r.script]
              /\ pc' = IF r.fatal THEN "fatal" ELSE pc
    /\ UNCHANGED <<pool, free_stack, to_start_stack, queue_log, cb, upd_i, upd_len,
                   pass_log, pass_visits, life, spawned, alive, dead>>

-----------------------------------------------------------------------------
(* The frame: run_pending_script_starts, then run_script_update *)

\* a detach that leaves the script on its node
take_script_keep(p, handle) == p

\* item.script_data.take(): the node is left without script_data
take_script(p, handle) == set_field(p, handle, "script_data", None)

Callback(kind, handle, script_data) ==
    [kind |-> kind, handle |-> handle, script_data |-> script_data, ops |-> 0]

\* the frame driver calls run_pending_script_starts
run_pending_script_starts ==
    /\ pc \in {"setup", "idle"}
    /\ pc' = "starts"
    /\ last' = [NoOp EXCEPT !.op = "starts_enter"]
    /\ UNCHANGED <<pool, free_stack, to_start_stack, queue_log, cb, upd_i, upd_len,
                   pass_log, pass_visits, life, spawned, alive, dead>>

\* a removal that leaves the sequence as it is
RemoveAt_none(s, i) == s

\* the sequence without its i-th entry
RemoveAt(s, i) == SubSeq(s, 1, i - 1) \o SubSeq(s, i + 1, Len(s))

\* a pop that takes the entry that has been queued the longest
pop_index_oldest(stack) == 1

\* Vec::pop: the position of the entry it takes, the last one
pop_index(stack) == Len(stack)

\* run_one_pending_script_start when the stack holds a handle: pop it; an
\* invalid handle or a node without script is passed over; otherwise the
\* script is taken out of the node and its start callback is entered
run_one_pending_script_start ==
    /\ pc = "starts"
    /\ ~is_some(cb)
    /\ Len(to_start_stack) > 0
    /\ LET at == pop_index(to_start_stack)
           handle == to_start_stack[at]
           item == try_borrow(pool, handle)
           popped(op) == [NoOp EXCEPT !.op = op, !.handle = Some(handle),
                                      !.pre_stack = to_start_stack,
                                      !.stamp = queue_log[at].stamp,
                                      !.during = queue_log[at].during,
                                      !.batch = queue_log[at].batch,
                                      !.record = queue_log[at].record,
                                      !.size = queue_log[at].size]
       IN  /\ to_start_stack' = RemoveAt(to_start_stack, at)
           /\ queue_log' = RemoveAt(queue_log, at)
           /\ IF is_some(item) /\ is_some(unwrap(item).script_data)
              THEN /\ pool' = take_script(pool, handle)
                   /\ cb' = Some(Callback("start", handle,
                                          unwrap(unwrap(item).script_data)))
                   /\ life' = [life EXCEPT ![handle.index + 1].starts =
                                               IF @ < 2 THEN @ + 1 ELSE @]
                   /\ last' = popped("start_call")
              ELSE /\ last' = popped("start_skip")
                   /\ UNCHANGED <<pool, cb, life>>
    /\ UNCHANGED <<free_stack, pc, upd_i, upd_len, pass_log, pass_visits, spawned, alive, dead>>

\* run_one_pending_script_start finds the stack empty and returns false, which
\* ends the loop of run_pending_script_starts
run_pending_script_starts_return ==
    /\ pc = "starts"
    /\ ~is_some(cb)
    /\ Len(to_start_stack) = 0
    /\ pc' = "started"
    /\ last' = [NoOp EXCEPT !.op = "starts_return"]
    /\ UNCHANGED <<pool, free_stack, to_start_stack, queue_log, cb, upd_i, upd_len,
                   pass_log, pass_visits, life, spawned, alive, dead>>

\* the frame driver calls run_script_update: the range 0..vec_len() is fixed
run_script_update ==
    /\ pc = "started"
    /\ pc' = "update"
    /\ upd_i' = 0
    /\ upd_len' = vec_len(pool)
    /\ pass_log' = << >>
    /\ pass_visits' = [entry_len |-> Len(pool), visited |-> << >>]
    /\ life' = [i \in 1..Len(life) |-> [life[i] EXCEPT !.fresh = FALSE]]
    /\ last' = [NoOp EXCEPT !.op = "update_enter"]
    /\ UNCHANGED <<pool, free_stack, to_start_stack, queue_log, cb, spawned, alive, dead>>

\* one iteration of the loop of run_script_update up to the callback: the
\* handle is rebuilt from index i; an invalid handle or a node without script
\* is passed over; otherwise the script is taken out and update is entered
run_script_update_step ==
    /\ pc = "update"
    /\ ~is_some(cb)
    /\ upd_i < upd_len
    /\ LET handle == handle_from_index(pool, upd_i)
           item == try_borrow(pool, handle)
       IN  IF is_some(item) /\ is_some(unwrap(item).script_data)
           THEN /\ pool' = take_script(pool, handle)
                /\ cb' = Some(Callback("update", handle,
                                       unwrap(unwrap(item).script_data)))
                /\ pass_log' = Append(pass_log, [index |-> upd_i, end |-> "running"])
                /\ life' = [life EXCEPT ![upd_i + 1].early =
                                            @ \/ life[upd_i + 1].starts = 0]
                /\ last' = [NoOp EXCEPT !.op = "update_call",
                                        !.handle = Some(handle)]
                /\ UNCHANGED upd_i
           ELSE /\ upd_i' = upd_i + 1
                /\ last' = [NoOp EXCEPT !.op = "update_skip",
                                        !.handle = Some(handle)]
                /\ UNCHANGED <<pool, cb, pass_log, life>>
    /\ pass_visits' = [pass_visits EXCEPT !.visited = Append(@, upd_i)]
    /\ UNCHANGED <<free_stack, to_start_stack, queue_log, pc, upd_len, spawned, alive, dead>>

\* a reattach that goes by the slot index alone
put_script_back_slot(p, handle, script_data) ==
    IF is_some(try_borrow(p, handle_from_index(p, handle.index)))
    THEN [fatal |-> FALSE,
          pool |-> set_field(p, handle, "script_data", Some(script_data))]
    ELSE [fatal |-> FALSE, pool |-> p]

\* the reattach step that treats a destroyed node as a failure
put_script_back_strict(p, handle, script_data) ==
    IF is_valid(p, handle)
    THEN [fatal |-> FALSE, pool |-> set_field(p, handle, "script_data", Some(script_data))]
    ELSE [fatal |-> TRUE, pool |-> p]

\* "put script back": the script returns to its node when the handle is
\* still valid, and is dropped otherwise
put_script_back(p, handle, script_data) ==
    IF is_some(try_borrow(p, handle))
    THEN [fatal |-> FALSE, pool |-> set_field(p, handle, "script_data", Some(script_data))]
    ELSE [fatal |-> FALSE, pool |-> p]

\* the running callback returns: the script is put back, and the loop that
\* invoked it goes on
CallbackReturn ==
    /\ pc \in {"starts", "update"}
    /\ is_some(cb)
    /\ LET c == unwrap(cb)
           r == put_script_back(pool, c.handle, c.script_data)
           ending == IF is_valid(pool, c.handle) THEN "reattached" ELSE "dropped"
       IN  /\ pool' = r.pool
           /\ pc' = IF r.fatal THEN "fatal" ELSE pc
           /\ cb' = None
           /\ last' = [NoOp EXCEPT !.op = "return_" \o c.kind,
                                   !.handle = Some(c.handle),
                                   !.as = c.script_data.type_id,
                                   !.script = Some(c.script_data.script),
                                   !.pre_pool = pool]
           /\ IF c.kind = "update"
              THEN /\ upd_i' = upd_i + 1
                   /\ pass_log' = [pass_log EXCEPT ![Len(pass_log)].end = ending]
              ELSE UNCHANGED <<upd_i, pass_log>>
    /\ UNCHANGED <<free_stack, to_start_stack, queue_log, upd_len, pass_visits, life,
                   spawned, alive, dead>>

\* the loop of run_script_update has covered its range and the call returns
run_script_update_return ==
    /\ pc = "update"
    /\ ~is_some(cb)
    /\ upd_i >= upd_len
    /\ pc' = "idle"
    /\ last' = [NoOp EXCEPT !.op = "update_return"]
    /\ UNCHANGED <<pool, free_stack, to_start_stack, queue_log, cb, upd_i, upd_len,
                   pass_log, pass_visits, life, spawned, alive, dead>>

Next ==
    \/ \E index \in PrefabIndices, parent \in ValidHandles(pool) :
           SpawnAtSetup(index, parent)
    \/ run_pending_script_starts
    \/ run_one_pending_script_start
    \/ run_pending_script_starts_return
    \/ run_script_update
    \/ run_script_update_step
    \/ \E index \in PrefabIndices, parent \in CallbackParents :
           CallbackSpawn(index, parent)
    \/ \E h \in ValidHandles(pool) : CallbackDestroy(h)
    \/ \E h \in ValidHandles(pool), T \in TypeIds : CallbackCast(h, T)
    \/ CallbackReturn
    \/ run_script_update_return

Spec == Init /\ [][Next]_vars

\* The frame with its scheduling: the loop of run_pending_script_starts goes
\* on to its next iteration or to its return, and a script callback that has
\* been entered returns
FairSpec ==
    /\ Init
    /\ [][Next]_vars
    /\ WF_vars(run_one_pending_script_start)
    /\ WF_vars(run_pending_script_starts_return)
    /\ WF_vars(CallbackReturn)

\* the variables have the shapes the model gives them
TypeOK ==
    /\ pc \in {"setup", "idle", "starts", "started", "update", "fatal", "pool"}
    /\ pc # "pool" => Len(life) = Len(pool)
    /\ Len(pool) <= MaxSlots
    /\ \A i \in 1..Len(pool) : pool[i].generation \in 0..GenMax
    /\ upd_i \in 0..MaxSlots


-----------------------------------------------------------------------------
(* The Pool on its own: any sequence of add and destroy on a new pool *)

\* the items the pool's user stores
PoolValues == {"a"}

\* the state after Pool::new
InitPool ==
    /\ pool = << >>
    /\ free_stack = << >>
    /\ to_start_stack = << >>
    /\ queue_log = << >>
    /\ pc = "pool"
    /\ cb = None
    /\ upd_i = 0
    /\ upd_len = 0
    /\ pass_log = << >>
    /\ pass_visits = [entry_len |-> 0, visited |-> << >>]
    /\ life = << >>
    /\ last = NoOp
    /\ spawned = {}
    /\ alive = {}
    /\ dead = {}

\* add(value): the handle it returns is recorded; prev is the handle the
\* operation just before destroyed, if that was a destroy
PoolAdd(value) ==
    LET r == pool_add(pool, free_stack, value)
    IN  /\ Len(r.pool) <= MaxSlots
        /\ pool' = r.pool
        /\ free_stack' = r.free
        /\ alive' = alive \cup {r.handle}
        /\ last' = [NoOp EXCEPT !.op = "add", !.handle = Some(r.handle),
                                !.prev = IF last.op = "destroy" THEN last.handle
                                         ELSE None]
        /\ UNCHANGED <<to_start_stack, queue_log, pc, cb, upd_i, upd_len, pass_log, pass_visits, life,
                       spawned, dead>>

\* destroy(handle) of a handle that is valid
PoolDestroy(h) ==
    LET r == pool_destroy(pool, free_stack, h)
    IN  /\ is_valid(pool, h)
        /\ pool' = r.pool
        /\ free_stack' = r.free
        /\ alive' = alive \ {h}
        /\ dead' = dead \cup {h}
        /\ last' = [NoOp EXCEPT !.op = "destroy", !.handle = Some(h)]
        /\ UNCHANGED <<to_start_stack, queue_log, pc, cb, upd_i, upd_len, pass_log, pass_visits, life,
                       spawned>>

NextPool ==
    \/ \E value \in PoolValues : PoolAdd(value)
    \/ \E h \in ValidHandles(pool) : PoolDestroy(h)

SpecPool == InitPool /\ [][NextPool]_vars


-----------------------------------------------------------------------------
(* Vocabulary of the properties *)

\* the handles met walking from a child_handle link through sibling_handle
\* links; the walk ends after an invalid handle, and after budget handles
RECURSIVE Chain(_, _, _)
Chain(p, link, budget) ==
    IF ~is_some(link) \/ budget = 0 THEN << >>
    ELSE IF ~is_valid(p, unwrap(link)) THEN <<unwrap(link)>>
    ELSE <<unwrap(link)>> \o
         Chain(p, borrow(p, unwrap(link)).sibling_handle, budget - 1)

\* the child list of the node a valid handle names
ChildList(p, h) == Chain(p, borrow(p, h).child_handle, Len(p) + 1)

NoDuplicates(s) == \A i, j \in 1..Len(s) : s[i] = s[j] => i = j

\* the last operation was a spawn_prefab call that returned
Spawned == last.op = "spawn" /\ ~last.fatal

\* the records of the template the last spawn_prefab call instantiated
LastNodes == saved_prefab_data[last.index + 1]

\* the parent handle the last spawn_prefab call was given
LastParent == unwrap(last.parent)

\* only well-formed templates have been instantiated, and nothing else has
\* happened: the states spawn_prefab calls on well-formed templates reach
OnlyWellFormedSpawns == pc = "setup" /\ spawned \subseteq WellFormedIndices

\* every node on a child list names the list's owner as its parent, and
\* every node but the root is on the child list of the parent it names
TreeShape(p) ==
    /\ \A h \in ValidHandles(p) :
          \A n \in SeqRange(ChildList(p, h)) :
              is_valid(p, n) /\ borrow(p, n).parent_handle = Some(h)
    /\ \A n \in ValidHandles(p) \ {root} :
          LET ph == borrow(p, n).parent_handle
          IN  /\ is_some(ph)
              /\ is_valid(p, unwrap(ph))
              /\ n \in SeqRange(ChildList(p, unwrap(ph)))

-----------------------------------------------------------------------------
(* Properties *)

\* C1: no node's update callback is invoked before its start callback has
\* been, and no node's start callback is invoked more than once.
C1_StartOnceBeforeUpdate ==
    \A i \in 1..Len(life) : life[i].starts <= 1 /\ ~life[i].early

\* C2: after spawn_prefab on a well-formed template, the node of the record
\* without parent index is the head of parent's child list, its sibling is
\* parent's previous head, and the walk over parent's child list meets it
\* and meets no node twice.
C2_TemplateRootIsHead ==
    (Spawned /\ last.index \in WellFormedIndices) =>
        LET r == last.new_handles[CHOOSE k \in RootRecords(LastNodes) : TRUE]
        IN  /\ borrow(pool, LastParent).child_handle = Some(r)
            /\ borrow(pool, r).sibling_handle = last.pre_child
            /\ r \in SeqRange(ChildList(pool, LastParent))
            /\ NoDuplicates(ChildList(pool, LastParent))

\* C3: in every state reached by spawn_prefab calls on well-formed templates
\* the tree-shape invariant holds.
C3_TreeShape == OnlyWellFormedSpawns => TreeShape(pool)

\* C4: a spawn_prefab call that returns has made exactly one live node per
\* record of the template and has pushed each new handle onto the start stack
\* once, in addition to what the stack held.
C4_SpawnAddsAndQueuesEach ==
    Spawned =>
        /\ Len(last.new_handles) = Len(LastNodes)
        /\ LiveCount(pool) = last.pre_live + Len(LastNodes)
        /\ NoDuplicates(last.new_handles)
        /\ \A k \in 1..Len(last.new_handles) : is_valid(pool, last.new_handles[k])
        /\ to_start_stack = last.pre_stack \o last.new_handles

\* a template of several records was spawned while the start stack held entries
C4_Witness ==
    /\ Spawned
    /\ Len(last.new_handles) >= 2
    /\ Len(last.pre_stack) > 0
    /\ is_some(cb)

\* C5: after spawn_prefab on a well-formed template, a record with parent
\* index p gives a node whose parent_handle is the handle allocated for record
\* p, the record without parent index gives a node whose parent_handle is
\* parent, and exactly one new node has parent_handle = parent.
C5_ParentHandles ==
    (Spawned /\ last.index \in WellFormedIndices) =>
        /\ \A k \in 1..Len(LastNodes) :
              borrow(pool, last.new_handles[k]).parent_handle =
                  IF is_some(LastNodes[k].parent_index)
                  THEN Some(last.new_handles[unwrap(LastNodes[k].parent_index) + 1])
                  ELSE last.parent
        /\ Cardinality({ k \in 1..Len(LastNodes) :
                           borrow(pool, last.new_handles[k]).parent_handle
                               = last.parent }) = 1

\* a well-formed template with a record that carries a parent index was spawned
C5_Witness ==
    /\ Spawned
    /\ last.index \in WellFormedIndices
    /\ \E k \in 1..Len(LastNodes) : is_some(LastNodes[k].parent_index)

\* C6: spawn_prefab on a template in which every record carries a parent
\* index is fatal and leaves parent's child list as it was.
C6_NoRootIsFatal ==
    (/\ last.op = "spawn"
     /\ last.index < Len(saved_prefab_data)
     /\ RootRecords(LastNodes) = {}) =>
        /\ last.fatal
        /\ borrow(pool, LastParent).child_handle = last.pre_child

\* C7: in every state reached by spawn_prefab calls on well-formed templates,
\* find returns the first node on search_root's child list that satisfies the
\* predicate, or absence when none does, and a handle it returns names a node
\* whose parent_handle is search_root.
C7_FindDirectChild ==
    OnlyWellFormedSpawns =>
        \A search_root \in ValidHandles(pool), pred \in Predicates :
            LET f == find(pool, search_root, pred)
                cl == ChildList(pool, search_root)
                matches == { i \in 1..Len(cl) :
                               is_valid(pool, cl[i])
                               /\ predicate(pred, borrow(pool, cl[i])) }
            IN  /\ f.outcome = "returns"
                /\ matches = {} => f.result = None
                /\ matches # {} =>
                      f.result = Some(cl[CHOOSE i \in matches :
                                            \A j \in matches : i <= j])
                /\ is_some(f.result) =>
                      borrow(pool, unwrap(f.result)).parent_handle = Some(search_root)


\* a callback of the current update pass ended with its node destroyed
DroppedInPass == \E e \in 1..Len(pass_log) : pass_log[e].end = "dropped"

\* C8: when an update callback has destroyed its own node, the reattach step
\* is skipped without failure and the loop moves to the next index; and every
\* scripted node that was live when the pass began and is live still, at an
\* index the loop has passed, has had its update invoked once in the pass and
\* has its script attached again.
C8_SelfDestroyPassContinues ==
    /\ (last.op = "return_update" /\ ~is_valid(pool, unwrap(last.handle))) =>
          /\ pc = "update"
          /\ ~is_some(cb)
          /\ upd_i = unwrap(last.handle).index + 1
    /\ (pc \in {"update", "idle"} /\ ~is_some(cb) /\ DroppedInPass) =>
          /\ NoDuplicates([e \in 1..Len(pass_log) |-> pass_log[e].index])
          /\ \A j \in 0..(upd_i - 1) :
                (/\ is_some(pool[j + 1].item)
                 /\ life[j + 1].scripted
                 /\ ~life[j + 1].fresh) =>
                    /\ \E e \in 1..Len(pass_log) :
                          /\ pass_log[e].index = j
                          /\ pass_log[e].end = "reattached"
                    /\ is_some(unwrap(pool[j + 1].item).script_data)

\* a pass has returned in which one callback destroyed its own node and a
\* callback at a later index ran and had its script put back
C8_Witness ==
    /\ pc = "idle"
    /\ last.op = "update_return"
    /\ \E e1, e2 \in 1..Len(pass_log) :
          /\ e1 < e2
          /\ pass_log[e1].end = "dropped"
          /\ pass_log[e2].end = "reattached"

\* every handle value the bounded pool can issue
AllHandles == { Handle(i, g) : i \in 0..(MaxSlots - 1), g \in 0..GenMax }

\* at most one handle value is valid for a slot index
AtMostOneValid ==
    \A h1, h2 \in AllHandles :
        (h1.index = h2.index /\ is_valid(pool, h1) /\ is_valid(pool, h2)) => h1 = h2

\* C9 as stated: a handle returned by add is valid until it is destroyed, a
\* destroyed handle value is never valid again, and at most one handle value
\* is valid for a slot index.
C9_DestroyedNeverValid ==
    /\ \A h \in alive : is_valid(pool, h)
    /\ \A h \in dead : ~is_valid(pool, h)
    /\ AtMostOneValid

\* C9 as amended: as stated, for the destroyed handles whose generation is
\* below the counter's maximum.
C9_DestroyedBelowMaxNeverValid ==
    /\ \A h \in alive : is_valid(pool, h)
    /\ \A h \in dead : h.generation < GenMax => ~is_valid(pool, h)
    /\ AtMostOneValid

\* the slot of a destroyed handle has been given to a new item
C9_Witness ==
    \E h \in dead, h2 \in alive :
        /\ h.generation < GenMax
        /\ h2.index = h.index
        /\ is_valid(pool, h2)

\* C10 as stated: an add that follows a destroy reuses the destroyed handle's
\* index with a strictly greater generation, and the destroyed handle is not
\* valid against the new occupant.
C10_ReuseStrictlyGreater ==
    (last.op = "add" /\ is_some(last.prev)) =>
        /\ unwrap(last.handle).index = unwrap(last.prev).index
        /\ unwrap(last.handle).generation > unwrap(last.prev).generation
        /\ ~is_valid(pool, unwrap(last.prev))

\* C10 as amended: as stated, when the destroyed occupant's generation was
\* below the counter's maximum.
C10_ReuseStrictlyGreaterBelowMax ==
    (/\ last.op = "add"
     /\ is_some(last.prev)
     /\ unwrap(last.prev).generation < GenMax) =>
        /\ unwrap(last.handle).index = unwrap(last.prev).index
        /\ unwrap(last.handle).generation > unwrap(last.prev).generation
        /\ ~is_valid(pool, unwrap(last.prev))

\* an add followed a destroy while an earlier freed slot was still free
C10_Witness ==
    /\ last.op = "add"
    /\ is_some(last.prev)
    /\ unwrap(last.prev).generation < GenMax
    /\ Len(free_stack) > 0


\* the handle a link index names when it is read as 1-based with 0 for no
\* link: absent for 0, else the handle of the record at position k - 1
OneBased(o) ==
    IF is_some(o) /\ unwrap(o) >= 1 /\ unwrap(o) <= Len(last.new_handles)
    THEN Some(last.new_handles[unwrap(o)])
    ELSE None

\* the handle a link index names when it is read as 0-based: the handle of
\* the record at position k
ZeroBased(o) ==
    IF is_some(o) THEN Some(last.new_handles[unwrap(o) + 1]) ELSE None

\* the records whose sibling_handle is still the one resolved from the
\* template: all but the last, whose sibling_handle link_new_child assigns
KeepsSibling == 1..(Len(LastNodes) - 1)

\* C11 as stated: after spawn_prefab, each node's child, parent and sibling
\* handle is the handle of the record at position k - 1 for a present link
\* index k >= 1, and a link index 0 is no link (for the parent link: the node
\* is given the caller's parent, as a record without parent index is).
C11_LinksOneBased ==
    Spawned =>
        \A k \in 1..Len(LastNodes) :
            LET n == borrow(pool, last.new_handles[k])
            IN  /\ n.child_handle = OneBased(LastNodes[k].child_index)
                /\ n.parent_handle = or(OneBased(LastNodes[k].parent_index), last.parent)
                /\ k \in KeepsSibling =>
                      n.sibling_handle = OneBased(LastNodes[k].sibling_index)

\* C11 as amended: each node's child, parent and sibling handle is the handle
\* of the record at position k (0-based) for a present link index k; a link
\* is absent only when the record carries no index for it, and a parent index
\* 0 names record 0.
C11_LinksZeroBased ==
    Spawned =>
        \A k \in 1..Len(LastNodes) :
            LET n == borrow(pool, last.new_handles[k])
            IN  /\ n.child_handle = ZeroBased(LastNodes[k].child_index)
                /\ n.parent_handle = or(ZeroBased(LastNodes[k].parent_index), last.parent)
                /\ k \in KeepsSibling =>
                      n.sibling_handle = ZeroBased(LastNodes[k].sibling_index)

\* a template was spawned in which a child index, a sibling index and a
\* parent index 0 are present
C11_Witness ==
    /\ Spawned
    /\ \E k \in 1..Len(LastNodes) : is_some(LastNodes[k].child_index)
    /\ \E k \in KeepsSibling : is_some(LastNodes[k].sibling_index)
    /\ \E k \in 1..Len(LastNodes) : LastNodes[k].parent_index = Some(0)


\* C12: the start stack is drained newest first.  While a callback runs, the
\* handles it spawns lie on top of the stack above every older entry, none of
\* them started; and whenever a start callback is entered, every entry still
\* on the stack was pushed before the entry it is entered for.  So a node
\* spawned by a start callback starts after that callback has returned and
\* before every entry that was queued already.
C12_StartsNewestFirst ==
    /\ (Spawned /\ is_some(cb)) =>
          LET n == Len(last.new_handles)
              m == Len(to_start_stack)
          IN  /\ SubSeq(to_start_stack, m - n + 1, m) = last.new_handles
              /\ \A i \in 1..(m - n), j \in (m - n + 1)..m :
                    queue_log[i].stamp < queue_log[j].stamp
    /\ last.op = "start_call" =>
          /\ unwrap(cb).handle = unwrap(last.handle)
          /\ \A i \in 1..Len(queue_log) : queue_log[i].stamp < last.stamp

\* the start callback of a node spawned by a start callback is entered while
\* an entry pushed before the drain is still queued
C12_Witness ==
    /\ last.op = "start_call"
    /\ last.during = "starts"
    /\ \E i \in 1..Len(queue_log) : queue_log[i].during # "starts"


\* the indices 0, 1, ..., n - 1 in increasing order
Ascending(n) == [k \in 1..n |-> k - 1]

\* C13: an update pass takes the pool indices 0 .. L - 1 once each in
\* increasing order, L being the number of slots when the pass was entered,
\* whatever the slots hold and however the nodes are linked: the end of the
\* range stays L while callbacks add slots, the indices taken so far are
\* 0, 1, 2, ... without gap or repeat, the pass returns when exactly L of them
\* have been taken, and no update callback is entered for an index >= L.  A
\* pass that is entered covers every slot there is at that moment.
C13_PassCoversEntryRange ==
    /\ last.op = "update_enter" => pass_visits.entry_len = Len(pool)
    /\ (pc = "update" \/ last.op = "update_return") =>
          /\ upd_len = pass_visits.entry_len
          /\ pass_visits.entry_len <= Len(pool)
          /\ Len(pass_visits.visited) <= pass_visits.entry_len
          /\ pass_visits.visited = Ascending(Len(pass_visits.visited))
          /\ \A k \in 1..Len(pass_log) : pass_log[k].index < pass_visits.entry_len
          /\ last.op = "update_return" =>
                pass_visits.visited = Ascending(pass_visits.entry_len)

\* a pass has returned during which a callback added a slot beyond the range,
\* and a slot of the range held no linked node
C13_Witness ==
    /\ last.op = "update_return"
    /\ Len(pool) > pass_visits.entry_len
    /\ Len(pass_log) > 0
    /\ \E i \in 1..pass_visits.entry_len : ~is_some(pool[i].item)


\* the handle of the entry the drain has just popped is stale
StalePopped ==
    /\ last.op \in {"start_call", "start_skip"}
    /\ ~is_valid(pool, unwrap(last.handle))

BuiltAsStored(s_data) == s_data.type_id = s_data.script.concrete

\* C15: a cast to T is fatal exactly when the borrowed node has no script
\* attached or its stored type id is not T's; otherwise it hands out the
\* node's payload.  Every script_data, attached to a node or detached for a
\* running callback, stores the id the factory built its payload from, so a
\* payload that is handed out as a T was built as a T.
C15_CastChecked ==
    /\ \A i \in 1..Len(pool) :
          (is_some(pool[i].item) /\ is_some(unwrap(pool[i].item).script_data))
             => BuiltAsStored(unwrap(unwrap(pool[i].item).script_data))
    /\ is_some(cb) => BuiltAsStored(unwrap(cb).script_data)
    /\ last.op = "cast" =>
          LET s_data == borrow(pool, unwrap(last.handle)).script_data
          IN  /\ last.fatal <=>
                    (~is_some(s_data) \/ unwrap(s_data).type_id # last.as)
              /\ ~last.fatal =>
                    /\ last.script = Some(unwrap(s_data).script)
                    /\ unwrap(last.script).concrete = last.as

\* a cast has handed out a payload while a node with a script of another
\* type is in the pool
C15_Witness ==
    /\ last.op = "cast"
    /\ ~last.fatal
    /\ \E i \in 1..Len(pool) :
          /\ is_some(pool[i].item)
          /\ is_some(unwrap(pool[i].item).script_data)
          /\ unwrap(unwrap(pool[i].item).script_data).type_id # last.as


\* C16: the root is the only live node without a parent_handle: every live
\* node that spawn_prefab created has one, whether its record carries a
\* parent index or not, and the root has none.
C16_OnlyRootParentless ==
    \A i \in 1..Len(pool) :
        is_some(pool[i].item) =>
            (~is_some(unwrap(pool[i].item).parent_handle)
                <=> handle_from_index(pool, i - 1) = root)

\* spawn_prefab has instantiated a template with a record that carries a
\* parent index and a record that carries none
C16_Witness ==
    /\ Spawned
    /\ \E k \in 1..Len(LastNodes) : is_some(LastNodes[k].parent_index)
    /\ \E k \in 1..Len(LastNodes) : ~is_some(LastNodes[k].parent_index)


\* following parent_handle from h arrives at the root within budget steps,
\* every step landing on a live node
RECURSIVE ReachesRoot(_, _, _)
ReachesRoot(p, h, budget) ==
    IF h = root THEN TRUE
    ELSE IF budget = 0 THEN FALSE
    ELSE LET ph == borrow(p, h).parent_handle
         IN  /\ is_some(ph)
             /\ is_valid(p, unwrap(ph))
             /\ ReachesRoot(p, unwrap(ph), budget - 1)

\* the number of parent_handle steps from h up to the root
RECURSIVE Depth(_, _)
Depth(p, h) ==
    IF h = root THEN 0 ELSE 1 + Depth(p, unwrap(borrow(p, h).parent_handle))

\* C17: after spawn_prefab calls on well-formed templates, each under a live
\* parent, the parent_handle links lead from every live node up to the root:
\* the walk stays on live nodes and arrives within as many steps as there are
\* slots, so it meets no cycle.
C17_ParentWalkReachesRoot ==
    OnlyWellFormedSpawns =>
        \A h \in ValidHandles(pool) : ReachesRoot(pool, h, Len(pool))

\* well-formed templates have been instantiated one under a node of the
\* other, and a node lies three parent steps below the root
C17_Witness ==
    /\ OnlyWellFormedSpawns
    /\ \A h \in ValidHandles(pool) : ReachesRoot(pool, h, Len(pool))
    /\ \E h \in ValidHandles(pool) : Depth(pool, h) = 3


\* the drain's loop: an iteration takes exactly one entry off the stack, the
\* call returns on an empty stack only, and outside a drain no entry is
\* queued that a start callback pushed
DrainSteps ==
    /\ last.op \in {"start_call", "start_skip"} =>
          /\ Len(last.pre_stack) > 0
          /\ Len(to_start_stack) = Len(last.pre_stack) - 1
    /\ last.op = "starts_return" => Len(to_start_stack) = 0
    /\ pc \in {"setup", "started", "update", "idle"} =>
          \A i \in 1..Len(queue_log) : queue_log[i].during # "starts"

\* C18: run_pending_script_starts takes one entry off the start stack per
\* iteration and returns on an empty stack only, so that the entries start
\* callbacks push during a drain are started in that drain; and a drain that
\* has been entered comes to its end, by returning or by a fatal error, the
\* callbacks spawning only finitely many nodes.
C18_DrainReturns ==
    /\ []DrainSteps
    /\ (pc = "starts") ~> (pc \in {"started", "fatal"})

\* the drain has taken the last entry off the stack, one that a start
\* callback of the same drain pushed, and entered its start callback
C18_Witness ==
    /\ last.op = "start_call"
    /\ last.during = "starts"
    /\ Len(to_start_stack) = 0


\* a callback has just returned
Returned == last.op \in {"return_start", "return_update"}

\* the script_data that was detached for the callback that has just returned
Detached == [type_id |-> last.as, script |-> unwrap(last.script)]

DetachedSlots ==
    { i \in 1..Len(pool) :
        /\ is_some(pool[i].item)
        /\ life[i].scripted
        /\ ~is_some(unwrap(pool[i].item).script_data) }

\* C20: while a start or update callback runs, the node it runs for, as
\* long as it is live, has no script_data in the pool; it is the only node
\* whose script is detached, and outside a callback none is.  So no
\* find_by_script_type, from whatever search root, returns the running node,
\* and cast_script and cast_script_mut on the running node are fatal for
\* every type.
C20_RunningScriptDetached ==
    /\ ~is_some(cb) => DetachedSlots = {}
    /\ is_some(cb) =>
          LET h == unwrap(cb).handle
          IN  /\ DetachedSlots \subseteq {h.index + 1}
              /\ is_valid(pool, h) =>
                    /\ DetachedSlots = {h.index + 1}
                    /\ ~is_some(borrow(pool, h).script_data)
                    /\ \A T \in TypeIds :
                          /\ cast_script(borrow(pool, h), T).fatal
                          /\ cast_script_mut(borrow(pool, h), T).fatal
              /\ \A search_root \in ValidHandles(pool), id \in {1, 2, 3} :
                    find(pool, search_root, ByScriptType(id)).result # Some(h)
    /\ (last.op = "cast" /\ last.handle = Some(unwrap(cb).handle)) => last.fatal

\* a callback runs for a node that is a child of the root beside a node with
\* a script of the type of the running one, and has cast its own node
C20_Witness ==
    /\ is_some(cb)
    /\ is_valid(pool, unwrap(cb).handle)
    /\ last.op = "cast"
    /\ last.handle = Some(unwrap(cb).handle)
    /\ borrow(pool, unwrap(cb).handle).parent_handle = Some(root)
    /\ find(pool, root, ByScriptType(unwrap(cb).script_data.type_id)).result # None


\* the entry the drain has just taken off the start stack
Popped == last.op \in {"start_call", "start_skip"}

\* C21: one spawn_prefab call pushes the handles of its records onto the
\* start stack in record order, record 0 lowest.  A drain takes the entries
\* of one call in reverse record order: when it takes the entry of record r,
\* the entries of the same call still on the stack are those of the records
\* 0 .. r - 1, so the last record's node is the first to start and record
\* 0's node the last.
C21_StartsInReverseRecordOrder ==
    /\ Spawned =>
          LET n == Len(last.new_handles)
              m == Len(to_start_stack)
          IN  \A k \in 1..n :
                  /\ to_start_stack[m - n + k] = last.new_handles[k]
                  /\ queue_log[m - n + k].record = k - 1
                  /\ queue_log[m - n + k].size = n
    /\ Popped =>
          { queue_log[i].record :
              i \in { j \in 1..Len(queue_log) : queue_log[j].batch = last.batch } }
            = 0..(last.record - 1)

\* the start callback of the node of record 0 of a template of several
\* records is entered, spawned before the drain, after another node started
C21_Witness ==
    /\ last.op = "start_call"
    /\ last.record = 0
    /\ last.size >= 2
    /\ last.during = "setup"
    /\ \E i \in 1..Len(pool) :
          /\ i # unwrap(last.handle).index + 1
          /\ is_some(pool[i].item)
          /\ life[i].starts = 1

=============================================================================
